---- MODULE Spec2Model ----
(***************************************************************************)
(* "Escape Across the Great Gobi" (src/thonny/__main__.py) as a state      *)
(* machine: play_game (new game or load), the game_loop commands, the      *)
(* random event, scoring, achievements, the terminal checks and finalize.  *)
(*                                                                         *)
(* Numbers.  officers.distance_behind is a Python float; here it is an     *)
(* integer count of thousandths of a km (DB_SCALE per km).  officer_speed  *)
(* is kept in hundredths (0.12 -> 12), diff_multiplier and chance_modifier *)
(* in tenths (1.5 -> 15, 0.8 -> 8), random.uniform factors in tenths.      *)
(* Random draws are inputs: each action takes its draws from a small set   *)
(* of draw vectors inside the ranges of the code.                          *)
(***************************************************************************)
EXTENDS Integers, Sequences, FiniteSets, TLC

VARIABLES
    pc,               \* "start" (play_game), "play" (game_loop prompt), "ended" (after finalize), "event" (random_event alone)
    origin,           \* which branch of play_game built the session: "none", "new", "loaded"
    ending,           \* which return of game_loop was taken: "none", "thirst", "stranded", "captured", "wounds", "win", "quit"
    player,           \* Player: thirst, health, distance, inventory, score, achievements, oasis_found
    camel,            \* Camel: stamina, health, sickness
    officers,         \* Officers: distance_behind (thousandths of a km)
    difficulty,       \* "EASY" | "NORMAL" | "HARD"
    officer_speed,    \* hundredths
    diff_multiplier,  \* tenths
    day,              \* game_loop's day counter
    choice,           \* the last choice read at the prompt, S apart ("" before the first)
    event_msg,        \* the event_msg of the last turn-consuming command ("none" for None), as lines 344-347 print it
    roll,             \* random_event's roll (0: not recorded)
    saveExists,       \* os.path.exists(SAVE_FILE)
    saveFile          \* parsed JSON content of SAVE_FILE

vars == <<pc, origin, ending, player, camel, officers, difficulty, officer_speed,
          diff_multiplier, day, choice, event_msg, roll, saveExists, saveFile>>

\* ---------------------------------------------------------------- bounds
\* Turn-consuming actions are explored while day <= MaxDay.
MaxDay == 2
\* A foreign save file lacks at most MaxMissing fields (SpecLoad).
MaxMissing == 2

\* ---------------------------------------------------------------- constants
TOTAL_DISTANCE == 200
\* thousandths of a km: officer_speed hundredths times uniform tenths
DB_SCALE == 100 * 10
THIRST_MAX == 5
DB_MIN == -50
DB_MAX == 1000

Difficulties == {"EASY", "NORMAL", "HARD"}

\* choose_difficulty: (difficulty, officer_speed, diff_multiplier)
choose_difficulty(c) ==
    CASE c = "1" -> [difficulty |-> "EASY", officer_speed |-> 8, diff_multiplier |-> 10]
      [] c = "2" -> [difficulty |-> "NORMAL", officer_speed |-> 12, diff_multiplier |-> 15]
      [] c = "3" -> [difficulty |-> "HARD", officer_speed |-> 16, diff_multiplier |-> 20]

Max2(a, b) == IF a >= b THEN a ELSE b
Min2(a, b) == IF a <= b THEN a ELSE b

ClampNoUpper(v, a, b) == Max2(a, v)
clamp(v, a, b) == Max2(a, Min2(b, v))

\* Python's int(): truncation toward zero of n / d.
IntTrunc(n, d) == IF n >= 0 THEN n \div d ELSE -((-n) \div d)

\* dict.get(k, dflt)
Get(d, k, dflt) == IF k \in DOMAIN d THEN d[k] ELSE dflt
\* d[k] = v on a dict
Put(d, k, v) == [x \in (DOMAIN d) \cup {k} |-> IF x = k THEN v ELSE d[x]]

EmptyObj == [x \in {} |-> 0]

\* ---------------------------------------------------------------- entities
NewPlayer ==
    [thirst |-> 0, health |-> 100, distance |-> 0,
     inventory |-> [water |-> 5, bandage |-> 1],
     score |-> 0, achievements |-> {}, oasis_found |-> 0]

NewCamel == [stamina |-> 0, health |-> 100, sickness |-> FALSE]

NewOfficers(start_behind) == [distance_behind |-> start_behind * DB_SCALE]

StartBehind(d) == IF d = "NORMAL" THEN 20 ELSE IF d = "EASY" THEN 25 ELSE 15

Water(p) == Get(p.inventory, "water", 0)
Bandage(p) == Get(p.inventory, "bandage", 0)

\* ---------------------------------------------------------------- random_event
chance_modifier(d) == CASE d = "EASY" -> 8 [] d = "NORMAL" -> 10 [] d = "HARD" -> 12

\* int(k * chance_modifier)
Ceiling(k, d) == IntTrunc(k * chance_modifier(d), 10)

Rolls == 1..100

\* The if-chain of random_event: which branch a roll takes.
EventKindScaled(r, d) ==
    IF r <= Ceiling(3, d) THEN "oasis"
    ELSE IF 4 <= r /\ r <= Ceiling(8, d) THEN "supply"
    ELSE IF Ceiling(8, d) < r /\ r <= Ceiling(18, d) THEN "sandstorm"
    ELSE IF Ceiling(18, d) < r /\ r <= Ceiling(27, d) THEN "bandits"
    ELSE IF Ceiling(27, d) < r /\ r <= Ceiling(32, d) THEN "sickness"
    ELSE "none"

EventKind(r, d) ==
    IF r <= Ceiling(3, d) THEN "oasis"
    ELSE IF 4 <= r /\ r <= Ceiling(8, d) THEN "supply"
    ELSE IF 9 <= r /\ r <= Ceiling(18, d) THEN "sandstorm"
    ELSE IF 19 <= r /\ r <= Ceiling(27, d) THEN "bandits"
    ELSE IF 28 <= r /\ r <= Ceiling(32, d) THEN "sickness"
    ELSE "none"

\* Draws of the event branches (the least and the greatest of each range).
SupplyDraws == {[found_water |-> 1, bandage |-> FALSE], [found_water |-> 3, bandage |-> TRUE]}
SandstormDraws == {[thirst_increase |-> 1, camel_loss |-> 5, damage |-> 0],
                   [thirst_increase |-> 2, camel_loss |-> 20, damage |-> 10]}
\* steal: random.random() < 0.7; most: whether randint(1, min(3, water)) gave its maximum
BanditDraws == {[steal |-> FALSE, most |-> FALSE, damage |-> 5, camel_damage |-> 0],
                [steal |-> TRUE, most |-> FALSE, damage |-> 5, camel_damage |-> 0],
                [steal |-> TRUE, most |-> TRUE, damage |-> 25, camel_damage |-> 15]}
SicknessDraws == {10, 25}

\* A world is what random_event and the action bodies mutate.
World(p, c, o, msg) == [p |-> p, c |-> c, o |-> o, msg |-> msg]

OasisTopsUp(w) ==
    [w EXCEPT !.p = [w.p EXCEPT !.oasis_found = @ + 1,
                                !.thirst = 0,
                                !.inventory = Put(@, "water", Max2(5, Water(w.p))),
                                !.achievements = @ \cup {"Found Oasis"}],
              !.c = [w.c EXCEPT !.stamina = 0],
              !.msg = "oasis"]

Oasis(w) ==
    [w EXCEPT !.p = [w.p EXCEPT !.oasis_found = @ + 1,
                                !.thirst = 0,
                                !.inventory = Put(@, "water", 5),
                                !.achievements = @ \cup {"Found Oasis"}],
              !.c = [w.c EXCEPT !.stamina = 0],
              !.msg = "oasis"]

Supply(w, dr) ==
    LET inv1 == Put(w.p.inventory, "water", Water(w.p) + dr.found_water)
        inv2 == IF dr.bandage THEN Put(inv1, "bandage", Get(inv1, "bandage", 0) + 1) ELSE inv1
    IN [w EXCEPT !.p = [w.p EXCEPT !.inventory = inv2], !.msg = "supply"]

SandstormDriftsBack(w, dr) ==
    [w EXCEPT !.p = [w.p EXCEPT !.thirst = clamp(@ + dr.thirst_increase, 0, THIRST_MAX),
                                !.health = clamp(@ - dr.damage, 0, 100),
                                !.distance = @ - dr.thirst_increase],
              !.c = [w.c EXCEPT !.stamina = clamp(@ + dr.camel_loss, 0, 100)],
              !.msg = "sandstorm"]

Sandstorm(w, dr) ==
    [w EXCEPT !.p = [w.p EXCEPT !.thirst = clamp(@ + dr.thirst_increase, 0, THIRST_MAX),
                                !.health = clamp(@ - dr.damage, 0, 100)],
              !.c = [w.c EXCEPT !.stamina = clamp(@ + dr.camel_loss, 0, 100)],
              !.msg = "sandstorm"]

BanditsTakeThree(w, dr) ==
    LET lost == IF Water(w.p) > 0 /\ dr.steal
                THEN (IF dr.most THEN 3 ELSE 1)
                ELSE 0
        inv == IF lost > 0 THEN Put(w.p.inventory, "water", w.p.inventory["water"] - lost)
               ELSE w.p.inventory
    IN [w EXCEPT !.p = [w.p EXCEPT !.inventory = inv,
                                   !.health = clamp(@ - dr.damage, 0, 100)],
                 !.c = [w.c EXCEPT !.health = clamp(@ - dr.camel_damage, 0, 100)],
                 !.msg = "bandits"]

Bandits(w, dr) ==
    LET lost == IF Water(w.p) > 0 /\ dr.steal
                THEN (IF dr.most THEN Min2(3, w.p.inventory["water"]) ELSE 1)
                ELSE 0
        inv == IF lost > 0 THEN Put(w.p.inventory, "water", w.p.inventory["water"] - lost)
               ELSE w.p.inventory
    IN [w EXCEPT !.p = [w.p EXCEPT !.inventory = inv,
                                   !.health = clamp(@ - dr.damage, 0, 100)],
                 !.c = [w.c EXCEPT !.health = clamp(@ - dr.camel_damage, 0, 100)],
                 !.msg = "bandits"]

Sickness(w, inc) ==
    [w EXCEPT !.c = [w.c EXCEPT !.sickness = TRUE,
                                !.stamina = clamp(@ + inc, 0, 100)],
              !.msg = "sickness"]

\* Every outcome of random_event on w for one roll.
EventOutcomes(w, r, d) ==
    LET k == EventKind(r, d) IN
    CASE k = "oasis" -> {Oasis(w)}
      [] k = "supply" -> {Supply(w, dr) : dr \in SupplyDraws}
      [] k = "sandstorm" -> {Sandstorm(w, dr) : dr \in SandstormDraws}
      [] k = "bandits" -> {Bandits(w, dr) : dr \in BanditDraws}
      [] k = "sickness" -> {Sickness(w, inc) : inc \in SicknessDraws}
      [] OTHER -> {w}

\* random_event: every outcome over every roll.
random_event(w, d) == UNION {EventOutcomes(w, r, d) : r \in Rolls}

\* ---------------------------------------------------------------- scoring, achievements
CalculateScoreOfShortfall(p, c, mult) ==
    LET base == (p.distance - TOTAL_DISTANCE) * 10
        leftover == Water(p) * 20
        health_bonus == p.health
        camel_bonus == Max2(0, 100 - c.stamina)
        oasis_bonus == p.oasis_found * 150
        achievement_bonus == Cardinality(p.achievements) * 100
        raw == base + leftover + health_bonus + camel_bonus + oasis_bonus + achievement_bonus
    IN IntTrunc(raw * mult, 10)

calculate_score(p, c, mult) ==
    LET base == p.distance * 10
        leftover == Water(p) * 20
        health_bonus == p.health
        camel_bonus == Max2(0, 100 - c.stamina)
        oasis_bonus == p.oasis_found * 150
        achievement_bonus == Cardinality(p.achievements) * 100
        raw == base + leftover + health_bonus + camel_bonus + oasis_bonus + achievement_bonus
    IN IntTrunc(raw * mult, 10)

\* The names check_achievements adds on (p, c).
EarnedWithoutEscape(p, c) ==
    (IF Water(p) >= 10 THEN {"Hoarder"} ELSE {})
    \cup (IF p.oasis_found >= 1 THEN {"Oasis Seeker"} ELSE {})
    \cup (IF c.stamina < 20 THEN {"Tough Ride"} ELSE {})
    \cup (IF p.health >= 90 /\ c.health >= 90 THEN {"Pristine"} ELSE {})

Earned(p, c) ==
    (IF p.distance >= TOTAL_DISTANCE THEN {"Escape!"} ELSE {})
    \cup (IF Water(p) >= 10 THEN {"Hoarder"} ELSE {})
    \cup (IF p.oasis_found >= 1 THEN {"Oasis Seeker"} ELSE {})
    \cup (IF c.stamina < 20 THEN {"Tough Ride"} ELSE {})
    \cup (IF p.health >= 90 /\ c.health >= 90 THEN {"Pristine"} ELSE {})

CheckAchievementsReset(p, c) == [p EXCEPT !.achievements = Earned(p, c)]
check_achievements(p, c) == [p EXCEPT !.achievements = @ \cup Earned(p, c)]

\* ---------------------------------------------------------------- save / load
\* list(player.achievements): a set has no order of its own; the list comes out in
\* the order of some ranking of the names, upward or downward.
AchNames == <<"Escape!", "Found Oasis", "Hoarder", "Hydrated", "Oasis Seeker", "Pristine", "Tough Ride">>

Reverse(s) == [i \in 1..Len(s) |-> s[Len(s) + 1 - i]]

ListOf(S, up) ==
    LET F[i \in 0..Len(AchNames)] ==
            IF i = 0 THEN <<>>
            ELSE IF AchNames[i] \in S THEN Append(F[i - 1], AchNames[i]) ELSE F[i - 1]
    IN IF up THEN F[Len(AchNames)] ELSE Reverse(F[Len(AchNames)])

\* set(ach_list)
SetOf(l) == {l[i] : i \in DOMAIN l}

\* The dict game_loop builds for the Save command.
SnapshotNoOasis(p, c, o, d, spd, mult, up) ==
    [player |-> [thirst |-> p.thirst, health |-> p.health, distance |-> p.distance,
                 inventory |-> p.inventory, score |-> p.score,
                 achievements |-> ListOf(p.achievements, up)],
     camel |-> [stamina |-> c.stamina, health |-> c.health, sickness |-> c.sickness],
     officers |-> [distance_behind |-> o.distance_behind],
     difficulty |-> d, officer_speed |-> spd, diff_multiplier |-> mult]

Snapshot(p, c, o, d, spd, mult, up) ==
    [player |-> [thirst |-> p.thirst, health |-> p.health, distance |-> p.distance,
                 inventory |-> p.inventory, score |-> p.score,
                 oasis_found |-> p.oasis_found,
                 achievements |-> ListOf(p.achievements, up)],
     camel |-> [stamina |-> c.stamina, health |-> c.health, sickness |-> c.sickness],
     officers |-> [distance_behind |-> o.distance_behind],
     difficulty |-> d, officer_speed |-> spd, diff_multiplier |-> mult]

\* play_game's restore of a loaded state.
RestorePlayer(state) ==
    LET player_state == Get(state, "player", EmptyObj) IN
    [thirst |-> Get(player_state, "thirst", 0),
     health |-> Get(player_state, "health", 100),
     distance |-> Get(player_state, "distance", 0),
     inventory |-> Get(player_state, "inventory", [water |-> 5, bandage |-> 1]),
     score |-> Get(player_state, "score", 0),
     achievements |-> SetOf(Get(player_state, "achievements", <<>>)),
     oasis_found |-> Get(player_state, "oasis_found", 0)]

RestoreCamel(state) ==
    LET camel_state == Get(state, "camel", EmptyObj) IN
    [stamina |-> Get(camel_state, "stamina", 0),
     health |-> Get(camel_state, "health", 100),
     sickness |-> Get(camel_state, "sickness", FALSE)]

RestoreOfficers(state) ==
    LET officers_state == Get(state, "officers", EmptyObj) IN
    [distance_behind |-> Get(officers_state, "distance_behind", NewOfficers(20).distance_behind)]

RestoreDifficulty(state) == Get(state, "difficulty", "NORMAL")
RestoreSpeed(state) == Get(state, "officer_speed", 12)
RestoreMultiplier(state) == Get(state, "diff_multiplier", 15)

\* `if state:` -- an empty dict is falsy
Truthy(state) == DOMAIN state # {}

\* ---------------------------------------------------------------- game_loop: end of a turn
\* The terminal checks after an action, in the order of the code.
TerminalWinFirst(w) ==
    IF w.p.distance >= TOTAL_DISTANCE THEN "win"
    ELSE IF w.p.thirst >= THIRST_MAX THEN "thirst"
    ELSE IF w.c.stamina >= 100 THEN "stranded"
    ELSE IF w.o.distance_behind <= 0 THEN "captured"
    ELSE IF w.p.health <= 0 THEN "wounds"
    ELSE "none"

TerminalHealthFirst(w) ==
    IF w.p.thirst >= THIRST_MAX THEN "thirst"
    ELSE IF w.c.stamina >= 100 THEN "stranded"
    ELSE IF w.p.health <= 0 THEN "wounds"
    ELSE IF w.o.distance_behind <= 0 THEN "captured"
    ELSE IF w.p.distance >= TOTAL_DISTANCE THEN "win"
    ELSE "none"

TerminalWithoutWin(w) ==
    IF w.p.thirst >= THIRST_MAX THEN "thirst"
    ELSE IF w.c.stamina >= 100 THEN "stranded"
    ELSE IF w.o.distance_behind <= 0 THEN "captured"
    ELSE IF w.p.health <= 0 THEN "wounds"
    ELSE "none"

Terminal(w) ==
    IF w.p.thirst >= THIRST_MAX THEN "thirst"
    ELSE IF w.c.stamina >= 100 THEN "stranded"
    ELSE IF w.o.distance_behind <= 0 THEN "captured"
    ELSE IF w.p.health <= 0 THEN "wounds"
    ELSE IF w.p.distance >= TOTAL_DISTANCE THEN "win"
    ELSE "none"

\* finalize: the summary re-runs check_achievements, prints player.score as it is,
\* and offers to delete the save file.
FinalizeWithoutCheck(p, c, o, t, msg, ch) ==
    /\ player' = p
    /\ choice' = ch
    /\ camel' = c
    /\ officers' = o
    /\ event_msg' = msg
    /\ ending' = t
    /\ pc' = "ended"
    /\ \E delete \in (IF saveExists THEN BOOLEAN ELSE {FALSE}) :
          /\ saveExists' = (saveExists /\ ~delete)
          /\ saveFile' = IF delete THEN EmptyObj ELSE saveFile
    /\ UNCHANGED <<origin, difficulty, officer_speed, diff_multiplier, day, roll>>

finalize(p, c, o, t, msg, ch) ==
    /\ player' = check_achievements(p, c)
    /\ choice' = ch
    /\ camel' = c
    /\ officers' = o
    /\ event_msg' = msg
    /\ ending' = t
    /\ pc' = "ended"
    /\ \E delete \in (IF saveExists THEN BOOLEAN ELSE {FALSE}) :
          /\ saveExists' = (saveExists /\ ~delete)
          /\ saveFile' = IF delete THEN EmptyObj ELSE saveFile
    /\ UNCHANGED <<origin, difficulty, officer_speed, diff_multiplier, day, roll>>

\* Lines 344-384: the terminal checks, else check_achievements, the score and day += 1.
TurnEnd(w, ch) ==
    LET t == Terminal(w) IN
    IF t # "none"
    THEN LET scored == [w.p EXCEPT !.score = calculate_score(w.p, w.c, diff_multiplier)]
             p1 == IF t = "win"
                   THEN [scored EXCEPT !.achievements = @ \cup {"Escape!"}]
                   ELSE scored
         IN finalize(p1, w.c, w.o, t, w.msg, ch)
    ELSE LET p2 == check_achievements(w.p, w.c) IN
         /\ player' = [p2 EXCEPT !.score = calculate_score(p2, w.c, diff_multiplier)]
         /\ camel' = w.c
         /\ officers' = w.o
         /\ event_msg' = w.msg
         /\ day' = day + 1
         /\ choice' = ch
         /\ UNCHANGED <<pc, origin, ending, difficulty, officer_speed, diff_multiplier,
                        roll, saveExists, saveFile>>

Now == World(player, camel, officers, "none")

\* The commands are explored while day <= MaxDay.
Turn == pc = "play" /\ day <= MaxDay

\* ---------------------------------------------------------------- game_loop: the commands
\* Q
Quit ==
    /\ Turn
    /\ finalize([player EXCEPT !.score = calculate_score(player, camel, diff_multiplier)],
                camel, officers, "quit", "none", "Q")

\* S (a save that succeeds)
Save ==
    /\ pc = "play"
    /\ \E up \in BOOLEAN :
          saveFile' = Snapshot(player, camel, officers, difficulty, officer_speed,
                               diff_multiplier, up)
    /\ saveExists' = TRUE
    /\ UNCHANGED <<pc, origin, ending, player, camel, officers, difficulty, officer_speed,
                   diff_multiplier, day, choice, event_msg, roll>>

\* A
DrinkAlways(w) ==
    [w EXCEPT !.p = [w.p EXCEPT !.inventory = Put(@, "water", Max2(0, Water(w.p) - 1)),
                                !.thirst = 0,
                                !.achievements = @ \cup {"Hydrated"}]]

DrinkBody(w) ==
    IF Water(w.p) > 0
    THEN [w EXCEPT !.p = [w.p EXCEPT !.inventory = Put(@, "water", @["water"] - 1),
                                     !.thirst = 0,
                                     !.achievements = @ \cup {"Hydrated"}]]
    ELSE w

Drink == Turn /\ TurnEnd(DrinkBody(Now), "A")

\* B: travel = randint(5, 12), fatigue = randint(5, 12), factor = uniform(0.8, 1.2)
ModerateDraws == {[travel |-> 5, fatigue |-> 5, factor |-> 8],
                  [travel |-> 12, fatigue |-> 5, factor |-> 12],
                  [travel |-> 12, fatigue |-> 12, factor |-> 12]}

ModerateBody(w, dr, spd) ==
    [w EXCEPT !.p = [w.p EXCEPT !.distance = @ + dr.travel,
                                !.thirst = clamp(@ + 1, 0, THIRST_MAX)],
              !.c = [w.c EXCEPT !.stamina = clamp(@ + dr.fatigue, 0, 100)],
              !.o = [w.o EXCEPT !.distance_behind =
                        clamp(@ - dr.travel * (spd * dr.factor),
                              DB_MIN * DB_SCALE, DB_MAX * DB_SCALE)]]

MoveModerateEventFirst ==
    /\ Turn
    /\ \E dr \in ModerateDraws :
          \E w0 \in random_event(Now, difficulty) :
             TurnEnd(ModerateBody(w0, dr, officer_speed), "B")

MoveModerate ==
    /\ Turn
    /\ \E dr \in ModerateDraws :
          \E w \in random_event(ModerateBody(Now, dr, officer_speed), difficulty) :
             TurnEnd(w, "B")

\* C: travel = randint(10, 20), thirst += randint(1, 2), fatigue = randint(10, 25),
\* factor = uniform(0.4, 1.0); the event is rolled when random.random() < 0.6
FastDraws == {[travel |-> 10, thirst |-> 1, fatigue |-> 10, factor |-> 4],
              [travel |-> 20, thirst |-> 1, fatigue |-> 10, factor |-> 10],
              [travel |-> 20, thirst |-> 2, fatigue |-> 25, factor |-> 10]}

FastBody(w, dr, spd) ==
    [w EXCEPT !.p = [w.p EXCEPT !.distance = @ + dr.travel,
                                !.thirst = clamp(@ + dr.thirst, 0, THIRST_MAX)],
              !.c = [w.c EXCEPT !.stamina = clamp(@ + dr.fatigue, 0, 100)],
              !.o = [w.o EXCEPT !.distance_behind =
                        clamp(@ - dr.travel * (spd * dr.factor),
                              DB_MIN * DB_SCALE, DB_MAX * DB_SCALE)]]

MoveFast ==
    /\ Turn
    /\ \E dr \in FastDraws, rolled \in BOOLEAN :
          LET w1 == FastBody(Now, dr, officer_speed) IN
          \E w \in (IF rolled THEN random_event(w1, difficulty) ELSE {w1}) :
             TurnEnd(w, "C")

\* D: recovered = randint(10, 30), gain = randint(7, 14); the event is rolled when
\* random.random() < 0.12
RestDraws == {[recovered |-> 10, gain |-> 7], [recovered |-> 30, gain |-> 14]}

RestBody(w, dr, spd) ==
    [w EXCEPT !.c = [w.c EXCEPT !.stamina = clamp(@ - dr.recovered, 0, 100)],
              !.p = [w.p EXCEPT !.thirst = clamp(@ + 1, 0, THIRST_MAX)],
              !.o = [w.o EXCEPT !.distance_behind =
                        clamp(@ + dr.gain * (spd * 10) * 10,
                              DB_MIN * DB_SCALE, DB_MAX * DB_SCALE)]]

Rest ==
    /\ Turn
    /\ \E dr \in RestDraws, rolled \in BOOLEAN :
          LET w1 == RestBody(Now, dr, officer_speed) IN
          \E w \in (IF rolled THEN random_event(w1, difficulty) ELSE {w1}) :
             TurnEnd(w, "D")

\* E: heal = randint(10, 30)
BandageDraws == {10, 30}

BandageBody(w, heal) ==
    IF Bandage(w.p) > 0
    THEN [w EXCEPT !.p = [w.p EXCEPT !.inventory = Put(@, "bandage", @["bandage"] - 1),
                                     !.health = clamp(@ + heal, 0, 100)]]
    ELSE w

UseBandage == Turn /\ \E heal \in BandageDraws : TurnEnd(BandageBody(Now, heal), "E")

\* F: the report is printed and the loop continues
StatusTakesTurn ==
    /\ Turn
    /\ choice' = "F"
    /\ day' = day + 1
    /\ UNCHANGED <<pc, origin, ending, player, camel, officers, difficulty, officer_speed,
                   diff_multiplier, event_msg, roll, saveExists, saveFile>>

Status ==
    /\ Turn
    /\ choice' = "F"
    /\ UNCHANGED <<pc, origin, ending, player, camel, officers, difficulty, officer_speed,
                   diff_multiplier, day, event_msg, roll, saveExists, saveFile>>

\* any other input ("X" stands for every choice that is none of Q S A B C D E F)
Invalid ==
    /\ Turn
    /\ choice' = "X"
    /\ UNCHANGED <<pc, origin, ending, player, camel, officers, difficulty, officer_speed,
                   diff_multiplier, day, event_msg, roll, saveExists, saveFile>>

\* ---------------------------------------------------------------- play_game
\* The user answers y to "Load it?" and load_game returns a truthy state.
LoadGame ==
    /\ pc = "start"
    /\ saveExists
    /\ Truthy(saveFile)
    /\ player' = RestorePlayer(saveFile)
    /\ camel' = RestoreCamel(saveFile)
    /\ officers' = RestoreOfficers(saveFile)
    /\ difficulty' = RestoreDifficulty(saveFile)
    /\ officer_speed' = RestoreSpeed(saveFile)
    /\ diff_multiplier' = RestoreMultiplier(saveFile)
    /\ day' = 1
    /\ pc' = "play"
    /\ origin' = "loaded"
    /\ UNCHANGED <<ending, choice, event_msg, roll, saveExists, saveFile>>

\* No save file, or the loaded state is falsy: choose_difficulty and a new game.
\* (The user takes a save that loads; declining it is not explored.)
NewGame ==
    /\ pc = "start"
    /\ ~(saveExists /\ Truthy(saveFile))
    /\ \E c \in {"1", "2", "3"} :
          LET ch == choose_difficulty(c) IN
          /\ difficulty' = ch.difficulty
          /\ officer_speed' = ch.officer_speed
          /\ diff_multiplier' = ch.diff_multiplier
          /\ officers' = NewOfficers(StartBehind(ch.difficulty))
    /\ player' = NewPlayer
    /\ camel' = NewCamel
    /\ day' = 1
    /\ pc' = "play"
    /\ origin' = "new"
    /\ UNCHANGED <<ending, choice, event_msg, roll, saveExists, saveFile>>

\* ---------------------------------------------------------------- save files found at start
\* Spec and SpecSave hold the commands that take a turn or end the session (and S);
\* F and the invalid input, which only return to the prompt, are in SpecPrompt.
\* A save written near the end of a hard-pressed run on difficulty choice c.
NearEndFile(c) ==
    LET ch == choose_difficulty(c)
        p0 == [thirst |-> 3, health |-> 20, distance |-> 188,
               inventory |-> [water |-> 1, bandage |-> 1],
               score |-> 0, achievements |-> {"Hydrated", "Pristine", "Tough Ride"},
               oasis_found |-> 0]
        c0 == [stamina |-> 70, health |-> 100, sickness |-> FALSE]
        o0 == [distance_behind |-> 3 * DB_SCALE]
    IN Snapshot([p0 EXCEPT !.score = calculate_score(p0, c0, ch.diff_multiplier)], c0, o0,
                ch.difficulty, ch.officer_speed, ch.diff_multiplier, TRUE)

\* A hand-made save that names only the thirst and the inventory.
BareFile == [player |-> [thirst |-> 4, inventory |-> [water |-> 0, bandage |-> 1]]]

StartFiles == {NearEndFile(c) : c \in {"1", "2", "3"}} \cup {BareFile}

Init ==
    /\ pc = "start"
    /\ origin = "none"
    /\ ending = "none"
    /\ player = NewPlayer
    /\ camel = NewCamel
    /\ officers = NewOfficers(20)
    /\ difficulty = "NORMAL"
    /\ officer_speed = 12
    /\ diff_multiplier = 15
    /\ day = 1
    /\ choice = ""
    /\ event_msg = "none"
    /\ roll = 0
    /\ \/ saveExists = FALSE /\ saveFile = EmptyObj
       \/ saveExists = TRUE /\ saveFile \in StartFiles

Next ==
    \/ LoadGame
    \/ NewGame
    \/ Quit
    \/ Drink
    \/ MoveModerate
    \/ MoveFast
    \/ Rest
    \/ UseBandage

Spec == Init /\ [][Next]_vars

\* ---------------------------------------------------------------- sessions with the Save command
\* Sessions resumed from a save file, with Save at every prompt.
InitSave ==
    /\ Init
    /\ saveExists

NextSave ==
    \/ LoadGame
    \/ Save
    \/ Quit
    \/ Drink
    \/ MoveModerate
    \/ MoveFast
    \/ Rest
    \/ UseBandage

SpecSave == InitSave /\ [][NextSave]_vars

\* ---------------------------------------------------------------- every command at every prompt
\* A session resumed from the near-end save of a NORMAL game: every command, F, S
\* and the invalid input included, at every prompt.
InitPrompt ==
    /\ Init
    /\ saveExists
    /\ saveFile = NearEndFile("2")

NextPrompt ==
    \/ LoadGame
    \/ Save
    \/ Status
    \/ Invalid
    \/ Quit
    \/ Drink
    \/ MoveModerate
    \/ MoveFast
    \/ Rest
    \/ UseBandage

SpecPrompt == InitPrompt /\ [][NextPrompt]_vars

\* ---------------------------------------------------------------- a march: only B and C
\* A new game in which the player types nothing but B and C, followed to its ending
\* however many days that takes. The draws are the least of every range (the
\* slowest march there is); the rolls are 1 (an oasis, without which thirst ends the
\* march on its fifth day) and 100 (no event).
MarchModerateDraws == {[travel |-> 5, fatigue |-> 5, factor |-> 8]}

MarchFastDraws == {[travel |-> 10, thirst |-> 1, fatigue |-> 10, factor |-> 4]}

MarchRolls == {1, 100}

MarchModerate ==
    /\ pc = "play"
    /\ \E dr \in MarchModerateDraws, r \in MarchRolls :
          \E w \in EventOutcomes(ModerateBody(Now, dr, officer_speed), r, difficulty) :
             TurnEnd(w, "B")

MarchFast ==
    /\ pc = "play"
    /\ \E dr \in MarchFastDraws, rolled \in BOOLEAN :
          LET w1 == FastBody(Now, dr, officer_speed) IN
          \E w \in (IF rolled
                    THEN UNION {EventOutcomes(w1, r, difficulty) : r \in MarchRolls}
                    ELSE {w1}) :
             TurnEnd(w, "C")

InitMarch ==
    /\ Init
    /\ ~saveExists

NextMarch ==
    \/ NewGame
    \/ MarchModerate
    \/ MarchFast

SpecMarch == InitMarch /\ [][NextMarch]_vars

\* ---------------------------------------------------------------- play_game on a foreign save file
\* A complete save in which no field has its new-game value.
FullFile(c) ==
    LET ch == choose_difficulty(c) IN
    [player |-> [thirst |-> 2, health |-> 60, distance |-> 50,
                 inventory |-> [water |-> 3, bandage |-> 2],
                 score |-> 1234, oasis_found |-> 1,
                 achievements |-> <<"Hydrated", "Found Oasis", "Oasis Seeker">>],
     camel |-> [stamina |-> 40, health |-> 80, sickness |-> TRUE],
     officers |-> [distance_behind |-> 12 * DB_SCALE],
     difficulty |-> ch.difficulty, officer_speed |-> ch.officer_speed,
     diff_multiplier |-> ch.diff_multiplier]

\* The fields of a save, as key paths.
Paths ==
    {<<"player">>, <<"camel">>, <<"officers">>,
     <<"difficulty">>, <<"officer_speed">>, <<"diff_multiplier">>,
     <<"player", "thirst">>, <<"player", "health">>, <<"player", "distance">>,
     <<"player", "inventory">>, <<"player", "score">>, <<"player", "oasis_found">>,
     <<"player", "achievements">>,
     <<"player", "inventory", "water">>, <<"player", "inventory", "bandage">>,
     <<"camel", "stamina">>, <<"camel", "health">>, <<"camel", "sickness">>,
     <<"officers", "distance_behind">>}

Without(d, k) == [x \in (DOMAIN d) \ {k} |-> d[x]]

RECURSIVE RemovePath(_, _)
RemovePath(obj, path) ==
    IF Head(path) \notin DOMAIN obj THEN obj
    ELSE IF Len(path) = 1 THEN Without(obj, Head(path))
    ELSE Put(obj, Head(path), RemovePath(obj[Head(path)], Tail(path)))

\* HasPath(obj, path): the field is present in the save.
RECURSIVE HasPath(_, _)
HasPath(obj, path) ==
    /\ Head(path) \in DOMAIN obj
    /\ Len(path) = 1 \/ HasPath(obj[Head(path)], Tail(path))

RECURSIVE AtPath(_, _)
AtPath(obj, path) ==
    IF Len(path) = 1 THEN obj[Head(path)] ELSE AtPath(obj[Head(path)], Tail(path))

\* Saves with at most n fields taken out.
RECURSIVE Lacking(_)
Lacking(n) ==
    IF n = 0 THEN {FullFile(c) : c \in {"1", "2", "3"}}
    ELSE LET prev == Lacking(n - 1) IN
         prev \cup {RemovePath(f, path) : f \in prev, path \in Paths}

InitLoad ==
    /\ pc = "start"
    /\ origin = "none"
    /\ ending = "none"
    /\ player = NewPlayer
    /\ camel = NewCamel
    /\ officers = NewOfficers(20)
    /\ difficulty = "NORMAL"
    /\ officer_speed = 12
    /\ diff_multiplier = 15
    /\ day = 1
    /\ choice = ""
    /\ event_msg = "none"
    /\ roll = 0
    /\ saveExists = TRUE
    /\ saveFile \in Lacking(MaxMissing) \cup {EmptyObj}

NextLoad ==
    \/ LoadGame
    \/ NewGame

SpecLoad == InitLoad /\ [][NextLoad]_vars

\* ---------------------------------------------------------------- random_event on its own
EventPlayers ==
    {NewPlayer,
     [NewPlayer EXCEPT !.thirst = 4, !.health = 20, !.distance = 120,
                       !.inventory = [water |-> 8, bandage |-> 0],
                       !.achievements = {"Hydrated", "Hoarder"}],
     [NewPlayer EXCEPT !.thirst = 2, !.health = 95, !.distance = 60,
                       !.inventory = [water |-> 0, bandage |-> 2], !.oasis_found = 1,
                       !.achievements = {"Found Oasis", "Oasis Seeker"}]}

EventCamels == {NewCamel, [stamina |-> 90, health |-> 10, sickness |-> FALSE]}

InitEvent ==
    /\ pc = "event"
    /\ origin = "none"
    /\ ending = "none"
    /\ player \in EventPlayers
    /\ camel \in EventCamels
    /\ difficulty \in Difficulties
    /\ officers = NewOfficers(StartBehind(difficulty))
    /\ officer_speed = 12
    /\ diff_multiplier = 15
    /\ day = 1
    /\ choice = ""
    /\ event_msg = "none"
    /\ roll = 0
    /\ saveExists = FALSE
    /\ saveFile = EmptyObj

\* One call random_event(player, camel, officers, difficulty), the roll recorded.
RollEvent ==
    /\ pc = "event"
    /\ roll = 0
    /\ \E r \in Rolls :
          \E w \in EventOutcomes(World(player, camel, officers, "none"), r, difficulty) :
             /\ roll' = r
             /\ player' = w.p
             /\ camel' = w.c
             /\ officers' = w.o
             /\ event_msg' = w.msg
    /\ UNCHANGED <<pc, origin, ending, difficulty, officer_speed, diff_multiplier, day,
                   choice, saveExists, saveFile>>

SpecEvent == InitEvent /\ [][RollEvent]_vars

\* ================================================================ properties
\* A step of game_loop that runs command c to the end of its turn.
Took(c) == pc = "play" /\ choice' = c /\ (day' = day + 1 \/ pc' = "ended")

Moved == Took("B") \/ Took("C")
TurnTaken == \E c \in {"A", "B", "C", "D", "E"} : Took(c)

Lost(p, c, o) ==
    \/ p.thirst >= THIRST_MAX
    \/ c.stamina >= 100
    \/ o.distance_behind <= 0
    \/ p.health <= 0

\* C1 (as stated): every MoveModerate or MoveFast after which distance >= 200 ends
\* the session in that turn with the win ending and "Escape!" among the achievements,
\* whatever thirst, camel stamina, distance-behind and health are.
C1_ReachingTotalWins ==
    [][(Moved /\ player'.distance >= TOTAL_DISTANCE)
       => (pc' = "ended" /\ ending' = "win" /\ "Escape!" \in player'.achievements)]_vars

\* C1 (amended): such a move ends the session in that turn with "Escape!" among the
\* achievements; the ending is the win exactly when none of thirst >= 5,
\* stamina >= 100, distance-behind <= 0, health <= 0 holds after the turn.
C1_ReachingTotalEnds ==
    [][(Moved /\ player'.distance >= TOTAL_DISTANCE)
       => /\ pc' = "ended"
          /\ "Escape!" \in player'.achievements
          /\ (ending' = "win") <=> ~Lost(player', camel', officers')]_vars

C1_Witness ==
    /\ pc = "ended"
    /\ ending = "win"
    /\ player.distance >= TOTAL_DISTANCE
    /\ player.thirst = 4
    /\ "Escape!" \in player.achievements

\* C2: in a session started as a new game, thirst is in 0..5, player health, camel
\* stamina and camel health in 0..100 and distance-behind in -50..1000 km after every
\* action.
C2_RangesInNewGame ==
    origin = "new" =>
        /\ player.thirst \in 0..THIRST_MAX
        /\ player.health \in 0..100
        /\ camel.stamina \in 0..100
        /\ camel.health \in 0..100
        /\ officers.distance_behind >= DB_MIN * DB_SCALE
        /\ officers.distance_behind <= DB_MAX * DB_SCALE

C2_Witness ==
    /\ origin = "new"
    /\ event_msg = "sandstorm"
    /\ player.thirst = THIRST_MAX
    /\ player.health < 100

\* C3: after every turn-consuming action the terminal conditions are taken in the
\* order thirst >= 5, stamina >= 100, distance-behind <= 0, health <= 0,
\* distance >= 200: the session ends with the ending of the first that holds, and
\* goes on to the next day when none holds.
C3_TerminalOrder ==
    [][TurnTaken =>
        LET th == player'.thirst >= THIRST_MAX
            st == camel'.stamina >= 100
            cap == officers'.distance_behind <= 0
            hl == player'.health <= 0
            won == player'.distance >= TOTAL_DISTANCE
        IN /\ th => (pc' = "ended" /\ ending' = "thirst")
           /\ (~th /\ st) => (pc' = "ended" /\ ending' = "stranded")
           /\ (~th /\ ~st /\ cap) => (pc' = "ended" /\ ending' = "captured")
           /\ (~th /\ ~st /\ ~cap /\ hl) => (pc' = "ended" /\ ending' = "wounds")
           /\ (~th /\ ~st /\ ~cap /\ ~hl /\ won) => (pc' = "ended" /\ ending' = "win")
           /\ (~th /\ ~st /\ ~cap /\ ~hl /\ ~won)
                 => (pc' = "play" /\ ending' = "none" /\ day' = day + 1)]_vars

C3_Witness ==
    /\ pc = "ended"
    /\ ending = "captured"
    /\ player.health <= 0
    /\ player.distance >= TOTAL_DISTANCE

\* C4: at the end of every completed turn and when the session has ended,
\* player.score = floor(multiplier * (10*distance + 20*water + health
\* + max(0, 100 - stamina) + 150*oasis_count + 100*|achievements|)) on the state
\* and achievement set held at that moment.
C4_ScoreIsCurrent ==
    (pc = "ended" \/ (pc = "play" /\ day > 1)) =>
        player.score =
            (diff_multiplier
             * (10 * player.distance + 20 * Water(player) + player.health
                + (IF camel.stamina < 100 THEN 100 - camel.stamina ELSE 0)
                + 150 * player.oasis_found
                + 100 * Cardinality(player.achievements))) \div 10

\* C5 (as stated): with f(k) = floor(k * modifier), a roll selects Oasis when
\* roll <= f(3), Supply cache when 3 < roll <= f(8), Sandstorm when
\* f(8) < roll <= f(18), Bandits when f(18) < roll <= f(27), Camel sickness when
\* f(27) < roll <= f(32), otherwise no event, under every difficulty.
Floor10(k, d) == (k * chance_modifier(d)) \div 10

C5_RollSelectsScaledRange ==
    roll > 0 =>
        event_msg =
            (IF roll <= Floor10(3, difficulty) THEN "oasis"
             ELSE IF 3 < roll /\ roll <= Floor10(8, difficulty) THEN "supply"
             ELSE IF Floor10(8, difficulty) < roll /\ roll <= Floor10(18, difficulty)
                  THEN "sandstorm"
             ELSE IF Floor10(18, difficulty) < roll /\ roll <= Floor10(27, difficulty)
                  THEN "bandits"
             ELSE IF Floor10(27, difficulty) < roll /\ roll <= Floor10(32, difficulty)
                  THEN "sickness"
             ELSE "none")

\* C5 (amended): the lower ends of the ranges are the fixed numbers 4, 9, 19 and 28
\* and only the upper ends are scaled: Oasis when roll <= f(3); Supply cache when
\* 4 <= roll <= f(8); Sandstorm when max(9, f(8)+1) <= roll <= f(18); Bandits when
\* max(19, f(18)+1) <= roll <= f(27); Camel sickness when
\* max(28, f(27)+1) <= roll <= f(32); otherwise no event.
C5_RollSelectsFixedFloorRange ==
    roll > 0 =>
        LET f3 == Floor10(3, difficulty)
            f8 == Floor10(8, difficulty)
            f18 == Floor10(18, difficulty)
            f27 == Floor10(27, difficulty)
            f32 == Floor10(32, difficulty)
        IN /\ (event_msg = "oasis") <=> roll <= f3
           /\ (event_msg = "supply") <=> (4 <= roll /\ roll <= f8)
           /\ (event_msg = "sandstorm") <=> (Max2(9, f8 + 1) <= roll /\ roll <= f18)
           /\ (event_msg = "bandits") <=> (Max2(19, f18 + 1) <= roll /\ roll <= f27)
           /\ (event_msg = "sickness") <=> (Max2(28, f27 + 1) <= roll /\ roll <= f32)
           /\ event_msg \in {"oasis", "supply", "sandstorm", "bandits", "sickness", "none"}

C5_Witness ==
    /\ difficulty = "EASY"
    /\ roll = 22
    /\ event_msg = "none"

\* C6 (as stated): Drink with water = 0 leaves every state field as it was.
C6_DrinkWithoutWaterIsNoOp ==
    [][(Took("A") /\ Water(player) = 0) => UNCHANGED <<player, camel, officers>>]_vars

\* Score and achievements are current: the turn-end evaluation would not change them.
Current(p, c, mult) ==
    /\ p.score = calculate_score(p, c, mult)
    /\ Earned(p, c) \subseteq p.achievements

\* C6 (amended): Drink with water = 0 leaves thirst, health, distance, inventory,
\* oasis counter, the camel and the distance-behind as they were in every state; it
\* leaves score and achievements as they were when they are current, and they are
\* current at every prompt after a completed turn (in a new game water is 5 on day 1).
C6_DrinkWithoutWaterKeepsCurrentState ==
    [][/\ (Took("A") /\ Water(player) = 0) =>
             /\ player' = [player EXCEPT !.score = player'.score,
                                         !.achievements = player'.achievements]
             /\ camel' = camel
             /\ officers' = officers
             /\ Current(player, camel, diff_multiplier) => player' = player
       /\ (pc' = "play" /\ day' > 1) => Current(player', camel', diff_multiplier')
       /\ (pc' = "play" /\ origin' = "new" /\ day' = 1) => Water(player') = 5]_vars

C6_Witness ==
    /\ pc = "play"
    /\ choice = "A"
    /\ day = 3
    /\ Water(player) = 0
    /\ player.thirst = 0
    /\ player.distance = 188
    /\ player.health = 20
    /\ camel.stamina = 70

\* C7: saving a state and loading the saved snapshot gives back the same thirst,
\* health, distance, inventory, score, oasis counter, achievement set, camel fields,
\* distance-behind, difficulty, officer speed and score multiplier.
C7_SaveLoadRoundTrip ==
    [][Save =>
        /\ saveExists'
        /\ Truthy(saveFile')
        /\ RestorePlayer(saveFile') = player
        /\ RestoreCamel(saveFile') = camel
        /\ RestoreOfficers(saveFile') = officers
        /\ RestoreDifficulty(saveFile') = difficulty
        /\ RestoreSpeed(saveFile') = officer_speed
        /\ RestoreMultiplier(saveFile') = diff_multiplier]_vars

C7_Witness ==
    /\ pc = "play"
    /\ day > 1
    /\ saveExists
    /\ player.oasis_found = 1
    /\ HasPath(saveFile, <<"player", "achievements">>)
    /\ Len(saveFile.player.achievements) >= 4
    /\ saveFile.player.achievements[1] = "Tough Ride"
    /\ RestorePlayer(saveFile) = player
    /\ RestoreCamel(saveFile) = camel

\* C8: loading a snapshot that lacks fields gives each missing field its new-game
\* value for the snapshot's difficulty (thirst 0, health 100, distance 0, water 5,
\* bandage 1, stamina 0, camel health 100, sickness false, the difficulty's starting
\* distance-behind) and every present field its saved value.
C8_MissingFieldsGetNewGameValues ==
    (pc = "play" /\ origin = "loaded") =>
        LET Field(path, dflt) == IF HasPath(saveFile, path) THEN AtPath(saveFile, path)
                                 ELSE dflt
        IN /\ player.thirst = Field(<<"player", "thirst">>, 0)
           /\ player.health = Field(<<"player", "health">>, 100)
           /\ player.distance = Field(<<"player", "distance">>, 0)
           /\ Water(player) = Field(<<"player", "inventory", "water">>, 5)
           /\ Bandage(player) = Field(<<"player", "inventory", "bandage">>, 1)
           /\ camel.stamina = Field(<<"camel", "stamina">>, 0)
           /\ camel.health = Field(<<"camel", "health">>, 100)
           /\ camel.sickness = Field(<<"camel", "sickness">>, FALSE)
           /\ officers.distance_behind =
                 Field(<<"officers", "distance_behind">>, StartBehind(difficulty) * DB_SCALE)

\* C9: a Rest never leaves the distance-behind larger than it was (the officers
\* close in while the player rests).
C9_RestLetsOfficersCloseIn ==
    [][Took("D") => officers'.distance_behind <= officers.distance_behind]_vars

\* C10: within a session the achievement set after any step contains the set
\* before it.
C10_AchievementsOnlyGrow ==
    [][pc = "play" => player.achievements \subseteq player'.achievements]_vars

C10_Witness ==
    /\ pc = "play"
    /\ origin = "new"
    /\ {"Hydrated", "Found Oasis", "Oasis Seeker", "Tough Ride", "Pristine"}
          \subseteq player.achievements

C12_DistanceNeverDecreases ==
    [][pc = "play" =>
          /\ player'.distance >= player.distance
          /\ Took("B") => (player'.distance - player.distance) \in 5..12
          /\ Took("C") => (player'.distance - player.distance) \in 10..20
          /\ ~Moved => player'.distance = player.distance]_vars

C12_Witness ==
    /\ pc = "play"
    /\ day = 2
    /\ choice = "F"
    /\ event_msg = "bandits"
    /\ player.distance = 188 + 5

\* C13: in every state of a session started as a new game the water count and the
\* bandage count are >= 0.
C13_InventoryNeverNegative ==
    origin = "new" =>
        /\ DOMAIN player.inventory = {"water", "bandage"}
        /\ player.inventory["water"] >= 0
        /\ player.inventory["bandage"] >= 0

C13_Witness ==
    /\ origin = "new"
    /\ pc = "play"
    /\ event_msg = "bandits"
    /\ player.inventory["water"] = 0

\* C14: a roll <= floor(3 * modifier) leaves thirst 0, camel stamina 0, water 5,
\* "Found Oasis" among the achievements and the oasis counter one higher, and leaves
\* player health, camel health, bandages, distance and distance-behind as they were.
C14_OasisRestores ==
    [][(roll' > 0 /\ roll' <= Floor10(3, difficulty)) =>
          /\ player'.thirst = 0
          /\ camel'.stamina = 0
          /\ Water(player') = 5
          /\ "Found Oasis" \in player'.achievements
          /\ player'.oasis_found = player.oasis_found + 1
          /\ player'.health = player.health
          /\ camel'.health = camel.health
          /\ Bandage(player') = Bandage(player)
          /\ player'.distance = player.distance
          /\ officers' = officers]_vars

C14_Witness ==
    /\ roll = 1
    /\ difficulty = "NORMAL"
    /\ event_msg = "oasis"
    /\ player.distance = 120
    /\ player.health = 20
    /\ Water(player) = 5
    /\ camel.stamina = 0
    /\ camel.health = 10

\* C15: Status, Save and the invalid command leave every game-state field, the score,
\* the achievement set and the day counter included, as it was; no event is rolled,
\* no terminal condition is judged and the session stays at the same prompt.
C15_PromptCommandsMutateNothing ==
    [][((pc = "play" /\ choice' \in {"F", "X"}) \/ Save) =>
          /\ UNCHANGED <<player, camel, officers>>
          /\ UNCHANGED <<difficulty, officer_speed, diff_multiplier>>
          /\ day' = day
          /\ UNCHANGED <<event_msg, roll>>
          /\ pc' = "play"
          /\ ending' = "none"]_vars

C15_Witness ==
    /\ pc = "play"
    /\ day = 2
    /\ choice = "X"
    /\ player.distance = 188 + 5
    /\ saveFile # NearEndFile("2")
    /\ RestorePlayer(saveFile) = player
    /\ RestoreCamel(saveFile) = camel
    /\ RestoreOfficers(saveFile) = officers

\* C16: at the end of every turn-consuming action and in the summary of an ended
\* session the achievement set holds "Escape!" if distance >= 200, "Hoarder" if
\* water >= 10, "Oasis Seeker" if the oasis counter >= 1, "Tough Ride" if camel
\* stamina < 20 and "Pristine" if player health >= 90 and camel health >= 90;
\* running the evaluation again on the same state adds nothing.
C16_AchievementsRechecked ==
    /\ (pc = "ended" \/ (pc = "play" /\ day > 1)) =>
          /\ player.distance >= TOTAL_DISTANCE => "Escape!" \in player.achievements
          /\ Water(player) >= 10 => "Hoarder" \in player.achievements
          /\ player.oasis_found >= 1 => "Oasis Seeker" \in player.achievements
          /\ camel.stamina < 20 => "Tough Ride" \in player.achievements
          /\ (player.health >= 90 /\ camel.health >= 90) => "Pristine" \in player.achievements
          /\ check_achievements(player, camel) = player
    /\ check_achievements(check_achievements(player, camel), camel)
          = check_achievements(player, camel)

C16_Witness ==
    /\ pc = "ended"
    /\ ending = "wounds"
    /\ player.distance >= TOTAL_DISTANCE
    /\ "Escape!" \in player.achievements

\* C17: in every state of a session started as a new game, on every difficulty,
\* player.score is an integer >= 0.
C17_ScoreIsNatural ==
    origin = "new" => player.score \in Nat

\* On NORMAL the score is 3k+1 exactly when raw = 2k+1 and int() dropped the half.
C17_Witness ==
    /\ origin = "new"
    /\ pc = "play"
    /\ difficulty = "NORMAL"
    /\ player.score > 0
    /\ player.score % 3 = 1

\* The action of this turn alone brings thirst to 5 or camel stamina to 100: B, C and
\* D add at least 1 to the thirst, B at least 5 and C at least 10 to the stamina.
ActionExhausts ==
    \/ (Took("B") \/ Took("C") \/ Took("D")) /\ player.thirst = THIRST_MAX - 1
    \/ Took("B") /\ camel.stamina >= 100 - 5
    \/ Took("C") /\ camel.stamina >= 100 - 10

\* The event of this turn hurts, and after it thirst, stamina or health is at its limit.
EventExhausts ==
    /\ TurnTaken
    /\ event_msg' \in {"sandstorm", "bandits", "sickness"}
    /\ \/ player'.thirst >= THIRST_MAX
       \/ camel'.stamina >= 100
       \/ player'.health <= 0

\* C18 (as stated): a turn whose action raises thirst to 5 or stamina to 100 does not
\* end the session when its event is an Oasis, and a turn whose event pushes thirst
\* to 5, stamina to 100 or health to 0 ends the session.
C18_OasisKeepsSessionGoing ==
    [][/\ (ActionExhausts /\ event_msg' = "oasis") => pc' = "play"
       /\ EventExhausts => pc' = "ended"]_vars

\* C18 (amended): the terminal conditions are judged on the state after the event.
\* When the action raises thirst to 5 or stamina to 100 and the event is an Oasis,
\* thirst and stamina are 0 after the turn and the session does not end by thirst or
\* by the stranded camel: it goes on unless distance-behind <= 0, health <= 0 or
\* distance >= 200 holds after the turn. A turn whose event pushes thirst to 5,
\* stamina to 100 or health to 0 ends the session with a loss.
C18_JudgedAfterEvent ==
    [][/\ (ActionExhausts /\ event_msg' = "oasis") =>
             /\ player'.thirst = 0
             /\ camel'.stamina = 0
             /\ ending' \notin {"thirst", "stranded"}
             /\ (pc' = "ended") <=> \/ officers'.distance_behind <= 0
                                      \/ player'.health <= 0
                                      \/ player'.distance >= TOTAL_DISTANCE
       /\ EventExhausts =>
             /\ pc' = "ended"
             /\ ending' \in {"thirst", "stranded", "captured", "wounds"}]_vars

C18_Witness ==
    /\ pc = "play"
    /\ origin = "loaded"
    /\ day = 2
    /\ choice = "B"
    /\ event_msg = "oasis"
    /\ player.thirst = 0
    /\ player.health = 100
    /\ player.distance = 5

\* C19 (as stated): at the end of a session "Escape!" is among the achievements if
\* and only if the session ended with the win ending.
C19_EscapeOnlyForWin ==
    pc = "ended" => (("Escape!" \in player.achievements) <=> ending = "win")

\* C19 (amended): at the end of a session started as a new game, or resumed from a
\* save written before 200 km, "Escape!" is among the achievements if and only if
\* distance >= 200; every win has it, a Quit never has it, and a loss has it exactly
\* when its last move reached 200 km.
C19_EscapeForReachingTotal ==
    pc = "ended" =>
        /\ ("Escape!" \in player.achievements) <=> player.distance >= TOTAL_DISTANCE
        /\ ending = "win" => "Escape!" \in player.achievements
        /\ ending = "quit" => "Escape!" \notin player.achievements

C19_Witness ==
    /\ pc = "ended"
    /\ ending = "thirst"
    /\ player.distance >= TOTAL_DISTANCE
    /\ "Escape!" \in player.achievements

\* The least travel of a move is 5 km (randint(5, 12)), so 40 moves cover 200 km.
MoveLimit == TOTAL_DISTANCE \div 5

\* C20: a new game in which only MoveModerate and MoveFast are issued has ended, with
\* a win or a loss, once 40 moves are made: at a prompt fewer than 40 moves have been
\* made (day - 1 of them), each has added at least 5 km, the distance is below 200
\* and a move can be made.
C20_MarchEndsWithinLimit ==
    /\ pc = "play" =>
          /\ day - 1 < MoveLimit
          /\ player.distance >= 5 * (day - 1)
          /\ player.distance < TOTAL_DISTANCE
          /\ ENABLED (MarchModerate \/ MarchFast)
    /\ pc = "ended" =>
          /\ day <= MoveLimit
          /\ ending \in {"thirst", "stranded", "captured", "wounds", "win"}

C20_Witness ==
    /\ pc = "ended"
    /\ day = MoveLimit
    /\ ending = "win"
    /\ player.distance = TOTAL_DISTANCE
====
